---- MODULE Spec2Model ----
(***************************************************************************)
(* hallmark/core.py: ParaFrame (pattern resolution, file enumeration,      *)
(* re-parsing, table assembly) and filter (keyword row filter).            *)
(*                                                                         *)
(* Strings are sequences of one-character strings, so that str.format,     *)
(* re.sub, glob and parse act on characters as the Python code does.       *)
(* A value is a record [t, n, s]: an int (t = "int", n its value) or a     *)
(* str (t = "str", s its characters).                                      *)
(***************************************************************************)
EXTENDS Integers, Sequences, FiniteSets, TLC

\* Bounds of the model.
MaxSegs == 2      \* segments per naming template
MaxFiles == 2     \* files present on the filesystem
MaxCons == 2      \* keyword constraints per call of filter

----------------------------------------------------------------------------
\* Values and characters

IntVal(n) == [t |-> "int", n |-> n, s |-> <<>>]
StrVal(s) == [t |-> "str", n |-> 0, s |-> s]

Star == <<"*">>
PathCol == <<"p", "a", "t", "h">>

Digits == <<"0", "1", "2", "3", "4", "5", "6", "7", "8", "9">>
IsDigit(c) == \E d \in 1..10 : Digits[d] = c
DigitValue(c) == (CHOOSE d \in 1..10 : Digits[d] = c) - 1

\* Unicode code points of the characters in use (Python compares str by them).
CodePoint(c) ==
  CASE c = "*" -> 42
    [] IsDigit(c) -> 48 + DigitValue(c)
    [] c = ":" -> 58
    [] c = "a" -> 97
    [] c = "b" -> 98
    [] c = "d" -> 100
    [] c = "h" -> 104
    [] c = "p" -> 112
    [] c = "r" -> 114
    [] c = "s" -> 115
    [] c = "t" -> 116
    [] c = "x" -> 120
    [] c = "z" -> 122
    [] c = "{" -> 123
    [] c = "}" -> 125

\* str(n) for n >= 0
RECURSIVE Decimal(_)
Decimal(n) ==
  IF n < 10 THEN <<Digits[n + 1]>>
  ELSE Decimal(n \div 10) \o <<Digits[(n % 10) + 1]>>

\* int(s) for a string of decimal digits
RECURSIVE ToInt(_)
ToInt(s) ==
  IF Len(s) = 0 THEN 0
  ELSE 10 * ToInt(SubSeq(s, 1, Len(s) - 1)) + DigitValue(s[Len(s)])

\* position of the first c in s at or after p, 0 when there is none
RECURSIVE IndexFrom(_, _, _)
IndexFrom(s, c, p) ==
  IF p > Len(s) THEN 0
  ELSE IF s[p] = c THEN p
  ELSE IndexFrom(s, c, p + 1)

RECURSIVE Count(_, _)
Count(c, s) ==
  IF Len(s) = 0 THEN 0
  ELSE (IF s[1] = c THEN 1 ELSE 0) + Count(c, Tail(s))

----------------------------------------------------------------------------
\* str.format(**kwargs)

FieldName(field) ==
  LET colon == IndexFrom(field, ":", 1)
  IN IF colon = 0 THEN field ELSE SubSeq(field, 1, colon - 1)

FieldSpec(field) ==
  LET colon == IndexFrom(field, ":", 1)
  IN IF colon = 0 THEN <<>> ELSE SubSeq(field, colon + 1, Len(field))

\* format(value, spec) is defined: 'd' wants an int, 's' wants a str
SpecAccepts(fspec, val) ==
  \/ fspec = <<>>
  \/ fspec = <<"d">> /\ val.t = "int"
  \/ fspec = <<"s">> /\ val.t = "str"

Render(val) == IF val.t = "int" THEN Decimal(val.n) ELSE val.s

FormatOk(out) == [st |-> "ok", out |-> out, key |-> <<>>]
FormatRaise(exc, key) == [st |-> exc, out |-> <<>>, key |-> key]
FormatEmit(txt, rest) ==
  IF rest.st = "ok" THEN FormatOk(txt \o rest.out) ELSE rest

RECURSIVE FormatFrom(_, _, _)
FormatFrom(s, p, kw) ==
  IF p > Len(s) THEN FormatOk(<<>>)
  ELSE IF s[p] = "{" THEN
    IF p < Len(s) /\ s[p + 1] = "{" THEN FormatEmit(<<"{">>, FormatFrom(s, p + 2, kw))
    ELSE LET close == IndexFrom(s, "}", p + 1) IN
      IF close = 0 THEN FormatRaise("ValueError", <<>>)
      ELSE LET field == SubSeq(s, p + 1, close - 1)
               name == FieldName(field)
           IN IF name = <<>> THEN FormatRaise("IndexError", <<>>)
              ELSE IF name \notin DOMAIN kw THEN FormatRaise("KeyError", name)
              ELSE IF ~SpecAccepts(FieldSpec(field), kw[name])
                THEN FormatRaise("ValueError", <<>>)
              ELSE FormatEmit(Render(kw[name]), FormatFrom(s, close + 1, kw))
  ELSE IF s[p] = "}" THEN
    IF p < Len(s) /\ s[p + 1] = "}" THEN FormatEmit(<<"}">>, FormatFrom(s, p + 2, kw))
    ELSE FormatRaise("ValueError", <<>>)
  ELSE FormatEmit(<<s[p]>>, FormatFrom(s, p + 1, kw))

Format(s, kw) == FormatFrom(s, 1, kw)

----------------------------------------------------------------------------
\* re.sub(r'\{' + k + ':?.*?\}', '{' + k + ':s}', pattern)

\* end of the leftmost-lazy match of \{k:?.*?\} starting at p, 0 when none
ReMatchEnd(k, s, p) ==
  LET pre == <<"{">> \o k
      e == p + Len(pre) - 1
  IN IF e <= Len(s) /\ SubSeq(s, p, e) = pre THEN IndexFrom(s, "}", e + 1) ELSE 0

RECURSIVE ReSubFrom(_, _, _)
ReSubFrom(k, s, p) ==
  IF p > Len(s) THEN <<>>
  ELSE LET close == ReMatchEnd(k, s, p) IN
    IF close # 0 THEN <<"{">> \o k \o <<":", "s", "}">> \o ReSubFrom(k, s, close + 1)
    ELSE <<s[p]>> \o ReSubFrom(k, s, p + 1)

ReSub(k, s) == ReSubFrom(k, s, 1)

----------------------------------------------------------------------------
\* sorted(glob(pattern))

\* fnmatch that stops at the end of the pattern (a prefix match)
RECURSIVE GlobMatchPrefix(_, _)
GlobMatchPrefix(pat, name) ==
  IF Len(pat) = 0 THEN TRUE
  ELSE IF pat[1] = "*" THEN
    \/ GlobMatchPrefix(Tail(pat), name)
    \/ Len(name) > 0 /\ GlobMatchPrefix(pat, Tail(name))
  ELSE Len(name) > 0 /\ name[1] = pat[1] /\ GlobMatchPrefix(Tail(pat), Tail(name))

\* fnmatch of one path component: '*' matches any run of characters
RECURSIVE GlobMatch(_, _)
GlobMatch(pat, name) ==
  IF Len(pat) = 0 THEN Len(name) = 0
  ELSE IF pat[1] = "*" THEN
    \/ GlobMatch(Tail(pat), name)
    \/ Len(name) > 0 /\ GlobMatch(pat, Tail(name))
  ELSE Len(name) > 0 /\ name[1] = pat[1] /\ GlobMatch(Tail(pat), Tail(name))

\* the paths glob may return, in any order
Glob(pat, disk) == {f \in disk : GlobMatch(pat, f)}

Orders(S) ==
  {q \in [1..Cardinality(S) -> S] : \A m, n \in DOMAIN q : m # n => q[m] # q[n]}

\* str.__lt__: by code point, a proper prefix first
RECURSIVE LexLT(_, _)
LexLT(x, y) ==
  IF Len(y) = 0 THEN FALSE
  ELSE IF Len(x) = 0 THEN TRUE
  ELSE IF x[1] = y[1] THEN LexLT(Tail(x), Tail(y))
  ELSE CodePoint(x[1]) < CodePoint(y[1])

\* the enumeration left in the order glob gave it
PyUnsorted(q) == q

PySorted(q) == SortSeq(q, LexLT)

----------------------------------------------------------------------------
\* parse.compile(fmt).parse(f)
\*
\* The parse library compiles the template to an anchored regular expression:
\* literal text escaped, '{{' and '}}' as one brace, an untyped field as
\* (?P<name>.+?), a :d field as an optionally signed run of digits, a repeated
\* name as a backreference. It matches ignoring case; the file names of this
\* model are lower case and unsigned, so neither case nor sign arises.

LitPart(c) == [k |-> "lit", c |-> c, name |-> <<>>, ty |-> <<>>]
FieldPart(field) ==
  [k |-> "field", c |-> "", name |-> FieldName(field), ty |-> FieldSpec(field)]

\* the template split into literal characters and fields
RECURSIVE TemplateParts(_, _)
TemplateParts(s, p) ==
  IF p > Len(s) THEN <<>>
  ELSE IF p < Len(s) /\ s[p] = "{" /\ s[p + 1] = "{"
    THEN <<LitPart("{")>> \o TemplateParts(s, p + 2)
  ELSE IF p < Len(s) /\ s[p] = "}" /\ s[p + 1] = "}"
    THEN <<LitPart("}")>> \o TemplateParts(s, p + 2)
  ELSE LET close == IF s[p] = "{" THEN IndexFrom(s, "}", p + 1) ELSE 0 IN
    IF close # 0
      THEN <<FieldPart(SubSeq(s, p + 1, close - 1))>> \o TemplateParts(s, close + 1)
    ELSE <<LitPart(s[p])>> \o TemplateParts(s, p + 1)

AllDigits(s) == \A m \in DOMAIN s : IsDigit(s[m])

\* the text a field of type ty may capture
FieldAccepts(ty, txt) ==
  IF ty = <<"d">> THEN Len(txt) > 0 /\ AllDigits(txt) ELSE Len(txt) > 0

MatchFail == [ok |-> FALSE, env |-> <<>>]

\* Anchored regular-expression match with backtracking. An untyped field is
\* the lazy group (.+?): the shortest capture that lets the rest match. A :d
\* field is the greedy group (\d+): the longest one. A repeated name is a
\* backreference to the text its first occurrence captured.
RECURSIVE MatchFrom(_, _, _, _, _)
MatchFrom(parts, j, s, p, env) ==
  IF j > Len(parts) THEN [ok |-> p = Len(s) + 1, env |-> env]
  ELSE LET part == parts[j] IN
    IF part.k = "lit" THEN
      IF p <= Len(s) /\ s[p] = part.c THEN MatchFrom(parts, j + 1, s, p + 1, env)
      ELSE MatchFail
    ELSE IF part.name \in DOMAIN env THEN
      LET txt == env[part.name]
          e == p + Len(txt) - 1
      IN IF e <= Len(s) /\ SubSeq(s, p, e) = txt
           THEN MatchFrom(parts, j + 1, s, e + 1, env)
         ELSE MatchFail
    ELSE
      LET Try(n) == MatchFrom(parts, j + 1, s, p + n, (part.name :> SubSeq(s, p, p + n - 1)) @@ env)
          good == {n \in 1..(Len(s) - p + 1) :
                     FieldAccepts(part.ty, SubSeq(s, p, p + n - 1)) /\ Try(n).ok}
      IN IF good = {} THEN MatchFail
         ELSE IF part.ty = <<"d">>
           THEN Try(CHOOSE n \in good : \A m \in good : m <= n)
         ELSE Try(CHOOSE n \in good : \A m \in good : n <= m)

FieldType(parts, name) ==
  parts[CHOOSE j \in DOMAIN parts : parts[j].k = "field" /\ parts[j].name = name].ty

Convert(ty, txt) == IF ty = <<"d">> THEN IntVal(ToInt(txt)) ELSE StrVal(txt)

\* parser.parse(f): ok = FALSE is the None result; named is r.named
Parse(template, f) ==
  LET parts == TemplateParts(template, 1)
      m == MatchFrom(parts, 1, f, 1, <<>>)
  IN IF m.ok
       THEN [ok |-> TRUE,
             named |-> [name \in DOMAIN m.env |-> Convert(FieldType(parts, name), m.env[name])]]
     ELSE [ok |-> FALSE, named |-> <<>>]

\* {'path': f, **r.named}: a later key replaces an earlier one
Row(f, named) == named @@ (PathCol :> StrVal(f))

----------------------------------------------------------------------------
\* Inputs: naming templates, caller bindings, filesystems

\* the segments a template is built from: literal text, an escaped brace,
\* an untyped field, a typed field whose name extends another's, and a field
\* named like the table's path column
Segments ==
  << <<"r">>, <<"x", "7">>, <<"*">>, <<"{", "{">>,
     <<"{", "a", "}">>, <<"{", "a", "b", ":", "d", "}">>, <<"{", "p", "a", "t", "h", "}">> >>

RECURSIVE Concat(_)
Concat(ss) == IF Len(ss) = 0 THEN <<>> ELSE Head(ss) \o Concat(Tail(ss))

Templates ==
  {Concat([m \in DOMAIN q |-> Segments[q[m]]]) :
     q \in UNION {[1..n -> DOMAIN Segments] : n \in 1..MaxSegs}}

FieldNames(template) ==
  LET parts == TemplateParts(template, 1)
  IN {parts[j].name : j \in {m \in DOMAIN parts : parts[m].k = "field"}}

NumFields(template) ==
  LET parts == TemplateParts(template, 1)
  IN Cardinality({m \in DOMAIN parts : parts[m].k = "field"})

\* values a caller binds a field to
BoundValues == {IntVal(5), StrVal(<<"x">>)}

\* keyword arguments naming some of the template's fields
Bindings(template) ==
  UNION {[N -> BoundValues] : N \in SUBSET FieldNames(template)}

\* file names that may exist in the working directory
PathPool == {<<"r">>, <<"r", "5">>, <<"r", "x", "7">>, <<"x", "7">>}

Filesystems == {S \in SUBSET PathPool : Cardinality(S) <= MaxFiles}

----------------------------------------------------------------------------
\* State

VARIABLES
  fmt,       \* ParaFrame: the naming template (argument fmt)
  kwargs0,   \* ParaFrame: the caller's keyword bindings
  disk,      \* the file names present
  pc,        \* position in the running call
  i,         \* ParaFrame: failed attempts of the retry loop so far
  pattern,   \* ParaFrame: local pattern
  kwargs,    \* ParaFrame: local kwargs, grown by the retry loop
  resolved,  \* ParaFrame: the loop ended in break
  err,       \* the exception that ended the call, "none" otherwise
  files,     \* ParaFrame: local files
  idx,       \* ParaFrame: position of the parse loop in files
  l,         \* ParaFrame: local l, the rows collected
  reported,  \* ParaFrame: paths printed as 'Failed to parse'
  table,     \* ParaFrame: the returned DataFrame (its rows)
  run,       \* which call of ParaFrame on these inputs is running
  prev,      \* the table the first call returned
  self,      \* filter: the DataFrame filtered
  cons,      \* filter: the keyword constraints, in order
  ci,        \* filter: position of the loop over kwargs.items()
  mask,      \* filter: local mask
  out        \* filter: the returned DataFrame (its rows)

pfvars == <<fmt, kwargs0, disk, i, pattern, kwargs, resolved, files, idx, l,
            reported, table, run, prev>>
fvars == <<self, cons, ci, mask, out>>
vars == <<pfvars, fvars, pc, err>>

pmax == Len(fmt) \div 3

\* locals at entry of ParaFrame
Entry ==
  /\ pc = "loop"
  /\ i = 0
  /\ pattern = fmt
  /\ kwargs = kwargs0
  /\ resolved = FALSE
  /\ err = "none"
  /\ files = <<>>
  /\ idx = 1
  /\ l = <<>>
  /\ reported = <<>>
  /\ table = <<>>

FilterIdle ==
  /\ self = <<>>
  /\ cons = <<>>
  /\ ci = 1
  /\ mask = <<>>
  /\ out = <<>>

Init ==
  /\ fmt \in Templates
  /\ kwargs0 \in Bindings(fmt)
  /\ disk \in Filesystems
  /\ run = 1
  /\ prev = <<>>
  /\ Entry
  /\ FilterIdle

----------------------------------------------------------------------------
\* ParaFrame

\* pattern = pattern.format(*args, **kwargs); break
FormatBreak ==
  /\ pc = "loop"
  /\ i < pmax
  /\ Format(pattern, kwargs).st = "ok"
  /\ pattern' = Format(pattern, kwargs).out
  /\ resolved' = TRUE
  /\ pc' = "glob"
  /\ UNCHANGED <<fmt, kwargs0, disk, i, kwargs, err, files, idx, l, reported,
                 table, run, prev, fvars>>

\* except KeyError: rewrite the field and bind it to '*'
RewriteMissing(k) ==
  /\ pattern' = ReSub(k, pattern)
  /\ kwargs' = (k :> StrVal(Star)) @@ kwargs

FormatKeyError ==
  /\ pc = "loop"
  /\ i < pmax
  /\ Format(pattern, kwargs).st = "KeyError"
  /\ RewriteMissing(Format(pattern, kwargs).key)
  /\ i' = i + 1
  /\ UNCHANGED <<fmt, kwargs0, disk, pc, resolved, err, files, idx, l, reported,
                 table, run, prev, fvars>>

\* any other exception of str.format leaves ParaFrame
FormatRaises ==
  /\ pc = "loop"
  /\ i < pmax
  /\ Format(pattern, kwargs).st \in {"ValueError", "IndexError"}
  /\ err' = Format(pattern, kwargs).st
  /\ pc' = "error"
  /\ UNCHANGED <<pfvars, fvars>>

\* range(pmax) is used up: the for statement ends and the function goes on
LoopExhausted ==
  /\ pc = "loop"
  /\ i >= pmax
  /\ pc' = "glob"
  /\ UNCHANGED <<pfvars, fvars, err>>

\* files = sorted(glob(pattern))
Enumerate ==
  /\ pc = "glob"
  /\ \E q \in Orders(Glob(pattern, disk)) : files' = PySorted(q)
  /\ idx' = 1
  /\ pc' = "parse"
  /\ UNCHANGED <<fmt, kwargs0, disk, i, pattern, kwargs, resolved, err, l,
                 reported, table, run, prev, fvars>>

\* r is None, and reading r.named raises
ParseFailedAborts ==
  /\ pc = "parse"
  /\ idx <= Len(files)
  /\ ~Parse(fmt, files[idx]).ok
  /\ reported' = Append(reported, files[idx])
  /\ err' = "AttributeError"
  /\ pc' = "error"
  /\ UNCHANGED <<fmt, kwargs0, disk, i, pattern, kwargs, resolved, files, idx,
                 l, table, run, prev, fvars>>

\* r is None: print(f'Failed to parse "{f}"')
ParseFailed ==
  /\ pc = "parse"
  /\ idx <= Len(files)
  /\ ~Parse(fmt, files[idx]).ok
  /\ reported' = Append(reported, files[idx])
  /\ idx' = idx + 1
  /\ UNCHANGED <<fmt, kwargs0, disk, pc, i, pattern, kwargs, resolved, err,
                 files, l, table, run, prev, fvars>>

\* l.append({'path': f, **r.named})
ParseAppend ==
  /\ pc = "parse"
  /\ idx <= Len(files)
  /\ Parse(fmt, files[idx]).ok
  /\ l' = Append(l, Row(files[idx], Parse(fmt, files[idx]).named))
  /\ idx' = idx + 1
  /\ UNCHANGED <<fmt, kwargs0, disk, pc, i, pattern, kwargs, resolved, err,
                 files, reported, table, run, prev, fvars>>

\* return pd.DataFrame(l)
Return ==
  /\ pc = "parse"
  /\ idx > Len(files)
  /\ table' = l
  /\ pc' = "done"
  /\ UNCHANGED <<fmt, kwargs0, disk, i, pattern, kwargs, resolved, err, files,
                 idx, l, reported, run, prev, fvars>>

\* the caller calls ParaFrame again: same template, same bindings, same files
CallAgain ==
  /\ pc = "done"
  /\ run = 1
  /\ run' = 2
  /\ prev' = table
  /\ pc' = "loop"
  /\ i' = 0
  /\ pattern' = fmt
  /\ kwargs' = kwargs0
  /\ resolved' = FALSE
  /\ files' = <<>>
  /\ idx' = 1
  /\ l' = <<>>
  /\ reported' = <<>>
  /\ table' = <<>>
  /\ UNCHANGED <<fmt, kwargs0, disk, err, fvars>>

----------------------------------------------------------------------------
\* filter (pandas.DataFrame.__call__)

\* the columns of pd.DataFrame(rows): none for an empty list
Columns(df) == UNION {DOMAIN df[j] : j \in DOMAIN df}

\* keyword arguments given to filter: a column that holds str, one that holds
\* int, and a name that is no column; scalars and lists
ConsColumns == {<<"a">>, <<"a", "b">>, <<"z">>}
ConsValues ==
  {[list |-> FALSE, vals |-> <<StrVal(<<"x">>)>>],
   [list |-> FALSE, vals |-> <<IntVal(7)>>],
   [list |-> TRUE, vals |-> <<IntVal(5), IntVal(7)>>],
   [list |-> TRUE, vals |-> <<StrVal(<<"r">>), StrVal(<<"x">>)>>]}

\* **kwargs: an ordered mapping, each keyword at most once
Constraints ==
  {c \in UNION {[1..n -> [col : ConsColumns, v : ConsValues]] : n \in 0..MaxCons} :
     \A m, n \in DOMAIN c : m # n => c[m].col # c[n].col}

\* self[k].isin(v)
IsIn(df, k, v) == [j \in DOMAIN df |-> \E m \in DOMAIN v : v[m] = df[j][k]]

\* self[k] == v
ColumnEq(df, k, v) == [j \in DOMAIN df |-> df[j][k] = v]

\* mask &= hits
MaskAnd(m, hits) == [j \in DOMAIN m |-> m[j] /\ hits[j]]

\* mask |= hits
MaskOr(m, hits) == [j \in DOMAIN m |-> m[j] \/ hits[j]]

\* self[mask]
RECURSIVE SelectRows(_, _)
SelectRows(df, m) ==
  IF Len(df) = 0 THEN <<>>
  ELSE (IF m[1] THEN <<df[1]>> ELSE <<>>) \o SelectRows(Tail(df), Tail(m))

\* table(**c): mask = [False] * len(self)
FilterCall ==
  /\ pc = "done"
  /\ \E c \in Constraints : cons' = c
  /\ self' = table
  /\ mask' = [j \in DOMAIN table |-> FALSE]
  /\ ci' = 1
  /\ pc' = "filter"
  /\ UNCHANGED <<pfvars, err, out>>

\* isinstance(v, (tuple, list)): mask |= self[k].isin(v)
FilterIsin ==
  /\ pc = "filter"
  /\ ci <= Len(cons)
  /\ cons[ci].col \in Columns(self)
  /\ cons[ci].v.list
  /\ mask' = MaskOr(mask, IsIn(self, cons[ci].col, cons[ci].v.vals))
  /\ ci' = ci + 1
  /\ UNCHANGED <<pfvars, pc, err, self, cons, out>>

\* else: mask |= self[k] == v
FilterEq ==
  /\ pc = "filter"
  /\ ci <= Len(cons)
  /\ cons[ci].col \in Columns(self)
  /\ ~cons[ci].v.list
  /\ mask' = MaskOr(mask, ColumnEq(self, cons[ci].col, cons[ci].v.vals[1]))
  /\ ci' = ci + 1
  /\ UNCHANGED <<pfvars, pc, err, self, cons, out>>

\* a keyword that is no column is passed over
FilterSkipsUnknown ==
  /\ pc = "filter"
  /\ ci <= Len(cons)
  /\ cons[ci].col \notin Columns(self)
  /\ ci' = ci + 1
  /\ UNCHANGED <<pfvars, pc, err, self, cons, mask, out>>

\* self[k] with k no column: KeyError leaves filter
FilterKeyError ==
  /\ pc = "filter"
  /\ ci <= Len(cons)
  /\ cons[ci].col \notin Columns(self)
  /\ err' = "KeyError"
  /\ pc' = "raised"
  /\ UNCHANGED <<pfvars, self, cons, ci, mask, out>>

\* return self[mask]
FilterReturn ==
  /\ pc = "filter"
  /\ ci > Len(cons)
  /\ out' = SelectRows(self, mask)
  /\ pc' = "returned"
  /\ UNCHANGED <<pfvars, err, self, cons, ci, mask>>

----------------------------------------------------------------------------
\* Specifications

Next ==
  \/ FormatBreak
  \/ FormatKeyError
  \/ FormatRaises
  \/ LoopExhausted
  \/ Enumerate
  \/ ParseFailed
  \/ ParseAppend
  \/ Return
  \/ CallAgain

Spec == Init /\ [][Next]_vars

\* a call of ParaFrame followed by a call of filter on the table it returned
FilterTemplates ==
  {<<"{", "a", "}">>, <<"{", "a", "}", "{", "a", "b", ":", "d", "}">>}

InitFilter == Init /\ fmt \in FilterTemplates

NextFilter ==
  \/ FormatBreak
  \/ FormatKeyError
  \/ FormatRaises
  \/ LoopExhausted
  \/ Enumerate
  \/ ParseFailed
  \/ ParseAppend
  \/ Return
  \/ FilterCall
  \/ FilterIsin
  \/ FilterEq
  \/ FilterKeyError
  \/ FilterReturn

SpecFilter == InitFilter /\ [][NextFilter]_vars

----------------------------------------------------------------------------
\* Properties

ParsesOk(f) == Parse(fmt, f).ok
ParseFails(f) == ~Parse(fmt, f).ok
RowOf(f) == Row(f, Parse(fmt, f).named)
RowsOf(ps) == [j \in DOMAIN ps |-> RowOf(ps[j])]
PastLoop == pc \in {"glob", "parse", "done"}

\* C1: once the retry loop has used all len(fmt) // 3 attempts without a
\* successful substitution, the call ends in an error and returns no table.
C1_ExhaustionIsFatal ==
  (pc # "loop" /\ ~resolved /\ i >= 1 /\ i >= pmax) => pc = "error"

\* C2: with no bindings supplied, the retry loop ends within len(fmt) / 3
\* iterations and leaves a pattern with one '*' per placeholder of the
\* template and no placeholder unformatted.
C2_UnboundBecomeWildcards ==
  (PastLoop /\ DOMAIN kwargs0 = {}) =>
    /\ i + (IF resolved THEN 1 ELSE 0) <= pmax
    /\ NumFields(pattern) = 0
    /\ Count("*", pattern) = Count("*", fmt) + NumFields(fmt)

\* the template with every bound field replaced by the text of its value and
\* every unbound field by '*'
RECURSIVE ResolvedParts(_, _)
ResolvedParts(parts, kw) ==
  IF Len(parts) = 0 THEN <<>>
  ELSE (IF parts[1].k = "lit" THEN <<parts[1].c>>
        ELSE IF parts[1].name \in DOMAIN kw THEN Render(kw[parts[1].name])
        ELSE Star) \o ResolvedParts(Tail(parts), kw)

\* every bound value is one its field's format specifier accepts
WellTyped(parts, kw) ==
  \A j \in DOMAIN parts :
    (parts[j].k = "field" /\ parts[j].name \in DOMAIN kw) =>
      SpecAccepts(parts[j].ty, kw[parts[j].name])

\* C3: the pattern handed to glob is the template with each bound placeholder
\* replaced by the text of its value and each unbound one by '*'; rewriting
\* one placeholder never changes another. Stated for the calls whose retry
\* loop succeeded, with bound values their format specifiers accept.
C3_PatternResolvesEachField ==
  (pc = "glob" /\ resolved /\ WellTyped(TemplateParts(fmt, 1), kwargs0)) =>
    pattern = ResolvedParts(TemplateParts(fmt, 1), kwargs0)

\* C4: a matched path that fails to parse is reported and left out, the call
\* is never aborted by it, and the rows are exactly those of the matched
\* paths that parse, in order.
C4_ParseFailuresAreSkipped ==
  /\ pc \in {"parse", "done"} =>
       LET seen == SubSeq(files, 1, idx - 1)
       IN /\ l = RowsOf(SelectSeq(seen, ParsesOk))
          /\ reported = SelectSeq(seen, ParseFails)
  /\ pc = "done" => idx = Len(files) + 1 /\ table = l
  /\ pc = "error" => reported = <<>>

C4_Witness ==
  pc = "done" /\ Len(reported) >= 1 /\ Len(table) >= 1

\* C5: the rows follow the ascending lexicographic order of the matched paths
\* they come from, and a second call with the same template, bindings and
\* files returns the same rows in the same order.
C5_RowsInSortedPathOrder ==
  pc = "done" =>
    LET ps == SelectSeq(files, ParsesOk)
    IN /\ table = RowsOf(ps)
       /\ \A m, n \in DOMAIN ps : m < n => LexLT(ps[m], ps[n])
       /\ run = 2 => table = prev

C5_Witness ==
  pc = "done" /\ run = 2 /\ Len(table) >= 2

\* a row satisfies constraint c: membership for a list, equality for a scalar
Satisfies(row, c) ==
  IF c.v.list THEN \E m \in DOMAIN c.v.vals : c.v.vals[m] = row[c.col]
  ELSE row[c.col] = c.v.vals[1]
SatisfiesAny(row) == \E n \in DOMAIN cons : Satisfies(row, cons[n])

\* C6: filter returns, in the table's row order, exactly the rows that satisfy
\* at least one constraint; with no constraint the result is empty.
C6_FilterKeepsRowsMatchingAny ==
  pc = "returned" => out = SelectSeq(self, SatisfiesAny)

C6_Witness ==
  /\ pc = "returned"
  /\ Len(cons) = 2
  /\ Len(out) >= 1
  /\ Len(out) < Len(self)
  /\ \E j \in DOMAIN out : \E n \in DOMAIN cons : ~Satisfies(out[j], cons[n])

\* C7: for every path enumerated for the resolved pattern, the value
\* re-parsing recovers for each placeholder the caller bound has the text of
\* the bound value. (The claim also says that re-parsing always succeeds;
\* this is its statement about the paths that do parse, for bound values
\* their format specifiers accept.)
C7_RoundTrip ==
  (pc = "parse" /\ WellTyped(TemplateParts(fmt, 1), kwargs0)) =>
    \A j \in DOMAIN files :
      Parse(fmt, files[j]).ok =>
        \A name \in DOMAIN kwargs0 :
          Render(Parse(fmt, files[j]).named[name]) = Render(kwargs0[name])

\* C8 as stated: a template with no placeholder resolves to itself and
\* matches at most one path.
C8_LiteralTemplateAsStated ==
  (pc \in {"parse", "done"} /\ NumFields(fmt) = 0) =>
    pattern = fmt /\ Len(files) <= 1

NoBraces(s) == Count("{", s) = 0 /\ Count("}", s) = 0
NoMagic(s) == Count("*", s) = 0

\* C8 amended: a template with no placeholder and no brace resolves to
\* itself; if it holds no glob metacharacter either, it matches at most one
\* path.
C8_LiteralTemplate ==
  (pc \in {"parse", "done"} /\ NumFields(fmt) = 0 /\ NoBraces(fmt)) =>
    /\ pattern = fmt
    /\ NoMagic(fmt) => Len(files) <= 1

C8_Witness ==
  /\ pc = "parse"
  /\ NumFields(fmt) = 0
  /\ NoBraces(fmt)
  /\ NoMagic(fmt)
  /\ resolved
  /\ Len(files) = 1

\* C9: filter given a keyword that is no column of the table fails with
\* KeyError and returns no table, wherever the keyword stands.
C9_UnknownColumnRaises ==
  /\ pc = "returned" => \A n \in DOMAIN cons : cons[n].col \in Columns(self)
  /\ (pc = "raised" \/ (pc = "filter" /\ ci > Len(cons))) =>
       /\ out = <<>>
       /\ (\E n \in DOMAIN cons : cons[n].col \notin Columns(self)) =>
            pc = "raised" /\ err = "KeyError"

C9_Witness ==
  /\ pc = "raised"
  /\ Len(cons) = 2
  /\ cons[1].col \in Columns(self)
  /\ cons[2].col \notin Columns(self)
  /\ \E j \in DOMAIN mask : mask[j]

\* C10: every row holds in its path column the matched path it was parsed
\* from, and a value for every placeholder of the template.
C10_RowsHoldPathAndFields ==
  pc = "done" =>
    LET ps == SelectSeq(files, ParsesOk)
    IN /\ Len(table) = Len(ps)
       /\ \A j \in DOMAIN table :
            /\ table[j][PathCol] = StrVal(ps[j])
            /\ FieldNames(fmt) \subseteq DOMAIN table[j]

====
